---- MODULE Spec2Model ----
(***************************************************************************)
(* Model of src/app.py: the /process request handler (process_files) and   *)
(* its helpers split_pdf, fill_page and merge_pdfs.  One request is        *)
(* followed from its validation to the end of its after-request cleanup.   *)
(* The session upload folder, the session completed folder, the report and *)
(* the archive are modelled as values; every step that can raise has a     *)
(* nondeterministic failure outcome standing for an I/O or rendering       *)
(* error of the environment.                                               *)
(***************************************************************************)
EXTENDS Integers, Sequences, FiniteSets, TLC

\* ---------------------------------------------------------------- bounds
MaxRows == 2
MaxPages == 4

\* ---------------------------------------------------------------- values
\* pandas' missing value (an empty cell); str() of it is the text "nan"
NaN == "NaN"
\* a path with no file behind it (page 0 is no page of any template)
NoFile == [page |-> 0, stamps |-> {}, run |-> -1]
\* the report file and the archive before they are written: a written report
\* holds at least the header, a written archive at least the report
NoReport == << >>
NoArchive == << >>

\* the data columns the model follows, after header normalisation
Columns == {"lastname", "firstname", "wt"}

CellValues(c) ==
    IF c = "lastname" THEN {NaN, "Smith"}
    ELSE IF c = "firstname" THEN {NaN, "Ann"}
    ELSE {"70"}

\* one row of the frame over the columns cols: row.to_dict()
RowsOver(cols) == { r \in [cols -> {NaN, "Smith", "Ann", "70"}] :
                      \A c \in cols : r[c] \in CellValues(c) }

\* every frame pd.read_csv / pd.read_excel can return within the bounds: the
\* name columns may be missing from the file, the weight column is there
Frames == UNION { UNION { [1..n -> RowsOver(cols \cup {"wt"})] : n \in 0..MaxRows } :
                  cols \in SUBSET {"lastname", "firstname"} }

\* the template file on the server: present or not, readable or not, pages
Templates == { [exists |-> FALSE, corrupt |-> FALSE, pages |-> 0] }
             \cup { [exists |-> TRUE, corrupt |-> c, pages |-> n] :
                    c \in BOOLEAN, n \in 0..MaxPages }

\* ------------------------------------------------------- pure helpers
\* pd.notna(v)
notna(v) == v # NaN

\* str(v) / f-string formatting of a cell value
Str(v) == IF v = NaN THEN "nan" ELSE v

\* dict.get(field, default)
Get(data, field, default) == IF field \in DOMAIN data THEN data[field] ELSE default

\* f"{patient_lastname}_{patient_firstname}_CDAI.pdf"
OutputName(data) ==
    << Str(Get(data, "lastname", "unknown_lastname")),
       Str(Get(data, "firstname", "unknown_firstname")),
       "_CDAI.pdf" >>

\* variant: the header offset forgotten (index + 1)
RowIdentifierOffByOne(index, data) ==
    [ row |-> index + 1,
      patient |-> << Str(Get(data, "firstname", "")), Str(Get(data, "lastname", "N/A")) >> ]

\* f"{data.get('firstname', '')} {data.get('lastname', 'N/A')}" and
\* f"Row {index + 2} (Patient: {patient_name})"
RowIdentifier(index, data) ==
    [ row |-> index + 2,
      patient |-> << Str(Get(data, "firstname", "")), Str(Get(data, "lastname", "N/A")) >> ]

\* the four header entries and the footer entry of processing_log
Header == << [kind |-> "HEADER", text |-> "title"],
             [kind |-> "HEADER", text |-> "datafile"],
             [kind |-> "HEADER", text |-> "template"],
             [kind |-> "HEADER", text |-> "separator"] >>

Footer == [kind |-> "FOOTER", text |-> "Report finished."]

SuccessEntry(rid, name) == [kind |-> "SUCCESS", row |-> rid.row, patient |-> rid.patient, file |-> name]

ErrorEntry(rid) == [kind |-> "ERROR", row |-> rid.row, patient |-> rid.patient]

\* field placements: field -> (x, y)
coords_p1 == [ f \in {"mc", "lastname", "firstname", "dob", "wt", "ht"} |->
                 CASE f = "mc" -> <<75, 250>>
                   [] f = "lastname" -> <<75, 330>>
                   [] f = "firstname" -> <<75, 360>>
                   [] f = "dob" -> <<75, 400>>
                   [] f = "wt" -> <<75, 430>>
                   [] f = "ht" -> <<75, 475>> ]

coords_p3 == [ f \in {"wt"} |-> <<325, 525>> ]

\* paths of the intermediate files inside the session upload folder
PagePath(n) == <<"page", n>>

\* pdf_path.replace(".pdf", "_filled.pdf")
FilledPath(p) == <<"filled", p[2]>>

Paths == { PagePath(n) : n \in 1..MaxPages } \cup { FilledPath(PagePath(n)) : n \in 1..MaxPages }

EmptyFolder == [ p \in Paths |-> NoFile ]

\* the text insertions fill_page makes: one per placed field the record has
Stamps(data, coordinates) ==
    { << f, Str(data[f]), << coordinates[f][1], coordinates[f][2] + 5 >> >> :
        f \in { g \in DOMAIN coordinates : g \in DOMAIN data /\ notna(data[g]) } }

\* the single-page document split_pdf saves for page n during run `run`
SplitPage(n, run) == [page |-> n, stamps |-> {}, run |-> run]

\* the document fill_page saves: the page it opened plus the insertions
FilledPage(doc, data, coordinates) ==
    [page |-> doc.page, stamps |-> doc.stamps \cup Stamps(data, coordinates), run |-> doc.run]

\* variant: an existing page file is kept instead of overwritten
SaveSplitKeepExisting(folder, path, doc) ==
    IF folder[path] = NoFile THEN [folder EXCEPT ![path] = doc] ELSE folder

\* new_pdf.save(split_pdf_path): the file is written whether or not it exists
SaveSplit(folder, path, doc) == [folder EXCEPT ![path] = doc]

\* split_pdf's loop over the first k pages of the template
RECURSIVE SplitInto(_, _, _)
SplitInto(folder, k, run) ==
    IF k = 0 THEN folder
    ELSE SaveSplit(SplitInto(folder, k - 1, run), PagePath(k), SplitPage(k, run))

SplitPaths(n) == [ i \in 1..n |-> PagePath(i) ]

\* variant: pages[4:]
ExtraPagesSkipOne(pages) == SubSeq(pages, 5, Len(pages))

\* pages[3:]
ExtraPages(pages) == SubSeq(pages, 4, Len(pages))

\* the filled_pages list of lines 166-170
FilledPaths(pages) ==
    (IF Len(pages) > 0 THEN << FilledPath(pages[1]) >> ELSE << >>)
    \o (IF Len(pages) > 1 THEN << pages[2] >> ELSE << >>)
    \o (IF Len(pages) > 2 THEN << FilledPath(pages[3]) >> ELSE << >>)
    \o (IF Len(pages) > 3 THEN ExtraPages(pages) ELSE << >>)

\* merge_pdfs: the pages of every listed file that exists, in list order
RECURSIVE MergedDoc(_, _)
MergedDoc(folder, paths) ==
    IF paths = << >> THEN << >>
    ELSE (IF folder[Head(paths)] # NoFile THEN << folder[Head(paths)] >> ELSE << >>)
         \o MergedDoc(folder, Tail(paths))

\* for p in pages + filled_pages: if os.path.exists(p): os.remove(p)
RemoveAll(folder, paths) ==
    [ p \in Paths |-> IF \E i \in 1..Len(paths) : paths[i] = p THEN NoFile ELSE folder[p] ]

\* variant: an entry replaces the entry of the same name
ZipWriteUnique(entries, entry) ==
    IF \E i \in 1..Len(entries) : entries[i].arcname = entry.arcname
    THEN [ i \in 1..Len(entries) |->
             IF entries[i].arcname = entry.arcname THEN entry ELSE entries[i] ]
    ELSE Append(entries, entry)

\* zf.write(f, arcname=...): zipfile appends an entry, also for a name it holds
ZipWrite(entries, entry) == Append(entries, entry)

\* arcname of the report inside the archive
ReportName == << "processing_report.txt" >>

RECURSIVE ZipAll(_, _)
ZipAll(files, store) ==
    IF files = << >> THEN << >>
    ELSE ZipWrite(ZipAll(SubSeq(files, 1, Len(files) - 1), store),
                  [arcname |-> files[Len(files)], content |-> store[files[Len(files)]]])

\* ---------------------------------------------------------------- state
VARIABLES
    pc,               \* position of the request inside process_files
    response,         \* what the caller gets
    template,         \* BLANK_CDAI_APP_DEC-25.pdf as found on the server
    df,               \* the data frame read from the data file
    uploadDir,        \* session_upload_folder exists
    completedDir,     \* session_completed_folder exists
    upload,           \* intermediate page files in session_upload_folder
    owner,            \* per path, the first record whose run wrote it (-1: none)
    completed,        \* output documents in session_completed_folder, by name
    reportFile,       \* processing_report.txt
    processing_log,
    generated_files,
    index,            \* 0-based position of the current row
    pages,
    filled_pages,
    archive,          \* entries of the zip file
    injected,         \* rows during whose own run a step raised
    rmtreeFailed      \* folders whose shutil.rmtree raised

vars == << pc, response, template, df, uploadDir, completedDir, upload, owner,
           completed, reportFile, processing_log, generated_files, index, pages,
           filled_pages, archive, injected, rmtreeFailed >>

NoDocs == [ n \in {} |-> << >> ]

Init ==
    /\ pc = "start"
    /\ response = "none"
    /\ template \in Templates
    /\ df = << >>
    /\ uploadDir = FALSE
    /\ completedDir = FALSE
    /\ upload = EmptyFolder
    /\ owner = [ p \in Paths |-> -1 ]
    /\ completed = NoDocs
    /\ reportFile = NoReport
    /\ processing_log = << >>
    /\ generated_files = << >>
    /\ index = 0
    /\ pages = << >>
    /\ filled_pages = << >>
    /\ archive = NoArchive
    /\ injected = {}
    /\ rmtreeFailed = {}

\* the row of the current iteration: row.to_dict()
Data == df[index + 1]

\* variant: the failure of fitz.open is swallowed
CanOpenAnything(t) == TRUE

\* fitz.open(input_pdf_path) succeeds
CanOpenTemplate(t) == ~t.corrupt

\* the first writer of each path in paths, given the writers so far
Owned(own, paths, run) ==
    [ p \in Paths |-> IF own[p] = -1 /\ p \in paths THEN run ELSE own[p] ]

\* variant: `break`, the loop ends at the first failing row
LoopBreak(i, n) == n

\* `continue`: the loop takes the next row
LoopAfterError(i, n) == i + 1

\* an uncaught exception ends the request with a server error
Crash ==
    /\ pc' = "ended"
    /\ response' = "500 Internal Server Error"

\* lines 91-103: the checks before the session folders exist
Validate ==
    /\ pc = "start"
    /\ \E hasDataFile \in BOOLEAN, emptyName \in BOOLEAN :
         IF ~hasDataFile
         THEN pc' = "ended" /\ response' = "400 Missing data file"
         ELSE IF ~template.exists
         THEN pc' = "ended" /\ response' = "500 Default PDF template not found"
         ELSE IF emptyName
         THEN pc' = "ended" /\ response' = "400 No selected file"
         ELSE pc' = "setup" /\ response' = response
    /\ UNCHANGED << template, df, uploadDir, completedDir, upload, owner, completed,
                    reportFile, processing_log, generated_files, index, pages,
                    filled_pages, archive, injected, rmtreeFailed >>

\* lines 105-118: the session folders, the saved data file, the template copy
Setup ==
    /\ pc = "setup"
    /\ uploadDir' = TRUE
    /\ completedDir' = TRUE
    /\ pc' = "read"
    /\ UNCHANGED << response, template, df, upload, owner, completed, reportFile,
                    processing_log, generated_files, index, pages, filled_pages,
                    archive, injected, rmtreeFailed >>

\* lines 120-135: parse the data file, start the log
ReadData ==
    /\ pc = "read"
    /\ \/ /\ Crash
          /\ UNCHANGED << df, processing_log >>
       \/ /\ df' \in Frames
          /\ processing_log' = Header
          /\ pc' = "loop"
          /\ response' = response
    /\ UNCHANGED << template, uploadDir, completedDir, upload, owner, completed,
                    reportFile, generated_files, index, pages, filled_pages,
                    archive, injected, rmtreeFailed >>

\* lines 137-147: the loop head
NextRow ==
    /\ pc = "loop"
    /\ pc' = IF index < Len(df) THEN "split" ELSE "report"
    /\ pages' = << >>
    /\ filled_pages' = << >>
    /\ UNCHANGED << response, template, df, uploadDir, completedDir, upload, owner,
                    completed, reportFile, processing_log, generated_files, index,
                    archive, injected, rmtreeFailed >>

\* line 150, lines 24-36: split_pdf.  stage 0 is fitz.open, stage k the save
\* of page k; a failure at stage k leaves pages 1..k-1 written.  The failures
\* followed are the one at fitz.open and the one at the last page
Split ==
    /\ pc = "split"
    /\ \/ /\ ~CanOpenTemplate(template)
          /\ pc' = "except"
          /\ UNCHANGED << upload, owner, pages, injected >>
       \/ /\ CanOpenTemplate(template)
          /\ \E k \in {0, template.pages} :
               /\ upload' = SplitInto(upload, IF k = 0 THEN 0 ELSE k - 1, index)
               /\ owner' = Owned(owner, { PagePath(i) : i \in 1..(k - 1) }, index)
          /\ pc' = "except"
          /\ injected' = injected \cup {index}
          /\ UNCHANGED pages
       \/ /\ CanOpenTemplate(template)
          /\ upload' = SplitInto(upload, template.pages, index)
          /\ owner' = Owned(owner, { PagePath(i) : i \in 1..template.pages }, index)
          /\ pages' = SplitPaths(template.pages)
          /\ pc' = "stamp"
          /\ UNCHANGED injected
    /\ UNCHANGED << response, template, df, uploadDir, completedDir, completed,
                    reportFile, processing_log, generated_files, index, filled_pages,
                    archive, rmtreeFailed >>

\* lines 38-59: fill_page on pdf_path, when it does not raise
Fill(folder, pdf_path, data, coordinates) ==
    [folder EXCEPT ![FilledPath(pdf_path)] = FilledPage(folder[pdf_path], data, coordinates)]

\* lines 166-170: stamp page 1 and page 3, pass the others through
Stamp ==
    /\ pc = "stamp"
    /\ LET n == Len(pages)
           after1 == IF n > 0 THEN Fill(upload, pages[1], Data, coords_p1) ELSE upload
           own1 == IF n > 0 THEN Owned(owner, {FilledPath(pages[1])}, index) ELSE owner
           after3 == IF n > 2 THEN Fill(after1, pages[3], Data, coords_p3) ELSE after1
           own3 == IF n > 2 THEN Owned(own1, {FilledPath(pages[3])}, index) ELSE own1
       IN  \/ /\ n > 0
              /\ pc' = "except"
              /\ injected' = injected \cup {index}
              /\ UNCHANGED << upload, owner, filled_pages >>
           \/ /\ n > 2
              /\ upload[pages[1]] # NoFile
              /\ upload' = after1
              /\ owner' = own1
              /\ pc' = "except"
              /\ injected' = injected \cup {index}
              /\ UNCHANGED filled_pages
           \/ /\ \A i \in {1, 3} : i <= n => upload[pages[i]] # NoFile
              /\ upload' = after3
              /\ owner' = own3
              /\ filled_pages' = FilledPaths(pages)
              /\ pc' = "merge"
              /\ UNCHANGED injected
           \/ /\ \E i \in {1, 3} : i <= n /\ upload[pages[i]] = NoFile
              /\ pc' = "except"
              /\ UNCHANGED << upload, owner, filled_pages, injected >>
    /\ UNCHANGED << response, template, df, uploadDir, completedDir, completed,
                    reportFile, processing_log, generated_files, index, pages,
                    archive, rmtreeFailed >>

\* line 172, lines 61-69: merge_pdfs into out_pdf
Merge ==
    /\ pc = "merge"
    /\ \/ /\ pc' = "except"
          /\ injected' = injected \cup {index}
          /\ UNCHANGED completed
       \/ /\ completed' = [ n \in DOMAIN completed \cup {OutputName(Data)} |->
                              IF n = OutputName(Data)
                              THEN MergedDoc(upload, filled_pages)
                              ELSE completed[n] ]
          /\ pc' = "remove"
          /\ UNCHANGED injected
    /\ UNCHANGED << response, template, df, uploadDir, completedDir, upload, owner,
                    reportFile, processing_log, generated_files, index, pages,
                    filled_pages, archive, rmtreeFailed >>

\* lines 174-179: delete the intermediate files, record the success
FinishRecord ==
    /\ pc = "remove"
    /\ \/ /\ pc' = "except"
          /\ injected' = injected \cup {index}
          /\ UNCHANGED << upload, generated_files, processing_log, index >>
       \/ /\ upload' = RemoveAll(upload, pages \o filled_pages)
          /\ generated_files' = Append(generated_files, OutputName(Data))
          /\ processing_log' = Append(processing_log,
                                 SuccessEntry(RowIdentifier(index, Data), OutputName(Data)))
          /\ index' = index + 1
          /\ pc' = "loop"
          /\ UNCHANGED injected
    /\ UNCHANGED << response, template, df, uploadDir, completedDir, owner, completed,
                    reportFile, pages, filled_pages, archive, rmtreeFailed >>

\* lines 181-185: the except clause
HandleError ==
    /\ pc = "except"
    /\ processing_log' = Append(processing_log, ErrorEntry(RowIdentifier(index, Data)))
    /\ index' = LoopAfterError(index, Len(df))
    /\ pc' = "loop"
    /\ UNCHANGED << response, template, df, uploadDir, completedDir, upload, owner,
                    completed, reportFile, generated_files, pages, filled_pages,
                    archive, injected, rmtreeFailed >>

\* lines 187-194: footer, report file, the empty-batch test
WriteReport ==
    /\ pc = "report"
    /\ processing_log' = Append(processing_log, Footer)
    /\ \/ /\ Crash
          /\ UNCHANGED reportFile
       \/ /\ reportFile' = processing_log'
          /\ IF generated_files = << >> /\ Len(processing_log') <= 4
             THEN pc' = "ended" /\ response' = "400 data file was empty"
             ELSE pc' = "zip" /\ response' = response
    /\ UNCHANGED << template, df, uploadDir, completedDir, upload, owner, completed,
                    generated_files, index, pages, filled_pages, archive, injected,
                    rmtreeFailed >>

\* lines 196-211: write the archive; only then is cleanup registered
BuildArchive ==
    /\ pc = "zip"
    /\ \/ /\ Crash
          /\ UNCHANGED archive
       \/ /\ archive' = ZipWrite(ZipAll(generated_files, completed),
                                 [arcname |-> ReportName, content |-> reportFile])
          /\ pc' = "send"
          /\ response' = response
    /\ UNCHANGED << template, df, uploadDir, completedDir, upload, owner, completed,
                    reportFile, processing_log, generated_files, index, pages,
                    filled_pages, injected, rmtreeFailed >>

\* lines 213-214: send_file; the registered cleanup runs on either outcome
SendFile ==
    /\ pc = "send"
    /\ response' \in {"200 archive", "500 Internal Server Error"}
    /\ pc' = "cleanup"
    /\ UNCHANGED << template, df, uploadDir, completedDir, upload, owner, completed,
                    reportFile, processing_log, generated_files, index, pages,
                    filled_pages, archive, injected, rmtreeFailed >>

\* lines 203-211: both rmtree calls sit in one try block
cleanup ==
    /\ pc = "cleanup"
    /\ \/ /\ rmtreeFailed' = {"upload"}
          /\ UNCHANGED << uploadDir, upload, completedDir, completed >>
       \/ /\ uploadDir' = FALSE
          /\ upload' = EmptyFolder
          /\ rmtreeFailed' = {"completed"}
          /\ UNCHANGED << completedDir, completed >>
       \/ /\ uploadDir' = FALSE
          /\ upload' = EmptyFolder
          /\ completedDir' = FALSE
          /\ completed' = NoDocs
          /\ UNCHANGED rmtreeFailed
    /\ pc' = "ended"
    /\ UNCHANGED << response, template, df, owner, reportFile, processing_log,
                    generated_files, index, pages, filled_pages, archive, injected >>

Next ==
    \/ Validate
    \/ Setup
    \/ ReadData
    \/ NextRow
    \/ Split
    \/ Stamp
    \/ Merge
    \/ FinishRecord
    \/ HandleError
    \/ WriteReport
    \/ BuildArchive
    \/ SendFile
    \/ cleanup

Spec == Init /\ [][Next]_vars

\* ------------------------------------------------------------ properties
\* the SUCCESS and ERROR entries of the log, in order
RecordLines == SelectSeq(processing_log, LAMBDA e : e.kind \in {"SUCCESS", "ERROR"})

SuccessLines == SelectSeq(processing_log, LAMBDA e : e.kind = "SUCCESS")

InIteration == pc \in {"split", "stamp", "merge", "remove", "except"}

PastLoop == pc \in {"report", "zip", "send", "cleanup", "ended"}

SessionCreated ==
    response \notin {"none", "400 Missing data file",
                     "500 Default PDF template not found", "400 No selected file"}

Absent(row, field) == field \notin DOMAIN row \/ row[field] = NaN

\* C1: an exception in one record's split, stamp, merge or removal step adds
\* exactly one ERROR line naming that row and the loop goes on: every record
\* already passed has exactly one line, the line of row k is ERROR exactly when
\* a step of row k's own run raised (or the template cannot be opened) and
\* SUCCESS otherwise, whatever happened to the other rows, and after the loop
\* every row of the frame has its line.
C1_ErrorIsolated ==
    /\ Len(RecordLines) = index
    /\ PastLoop => index = Len(df)
    /\ \A k \in 1..Len(RecordLines) :
         /\ RecordLines[k].row = k + 1
         /\ RecordLines[k].kind =
              IF (k - 1) \in injected \/ template.corrupt THEN "ERROR" ELSE "SUCCESS"

C1_Witness ==
    /\ pc = "report"
    /\ ~template.corrupt
    /\ \E i, j \in 1..Len(RecordLines) :
         i < j /\ RecordLines[i].kind = "ERROR" /\ RecordLines[j].kind = "SUCCESS"

\* C2: the archive holds one PDF entry per SUCCESS line, in the order of those
\* lines and under the names they give, followed by the single report entry.
C2_ArchiveCount ==
    archive # NoArchive =>
      /\ Len(archive) = Len(SuccessLines) + 1
      /\ archive[Len(archive)].arcname = ReportName
      /\ \A i \in 1..Len(SuccessLines) : archive[i].arcname = SuccessLines[i].file

C2_Witness ==
    /\ archive # NoArchive
    /\ Len(archive) = 3
    /\ archive[1].arcname = archive[2].arcname

C4_EmptyBatchSignal ==
    /\ (reportFile # NoReport /\ Len(df) = 0) =>
         (pc = "ended" /\ response = "400 data file was empty" /\ archive = NoArchive)
    /\ archive # NoArchive => (generated_files # << >> \/ Len(df) > 0)

\* C5: at the start of every iteration and at the end of the loop no
\* intermediate page file exists in the session upload folder.
C5_PagesCleaned ==
    pc \in {"loop", "report"} => upload = EmptyFolder

\* C6 (as claimed): with a corrupt template no record is attempted: no record
\* line is logged, no per-record step runs and no archive is built.
C6_CorruptAbortsBatch ==
    template.corrupt => (RecordLines = << >> /\ ~InIteration /\ archive = NoArchive)

\* C6 (amended): with a corrupt template every record is attempted and fails in
\* its split step: each row gets exactly one ERROR line, no stamp, merge or
\* removal step runs, no document is generated, and an archive that is built
\* holds the report alone.
C6_CorruptIsPerRecord ==
    template.corrupt =>
      /\ pc \notin {"stamp", "merge", "remove"}
      /\ generated_files = << >>
      /\ DOMAIN completed = {}
      /\ Len(RecordLines) = index
      /\ \A k \in 1..Len(RecordLines) : RecordLines[k].kind = "ERROR"
      /\ (PastLoop /\ reportFile # NoReport) => Len(RecordLines) = Len(df)
      /\ archive # NoArchive => (Len(archive) = 1 /\ archive[1].arcname = ReportName)

C6_Witness ==
    /\ template.corrupt
    /\ archive # NoArchive
    /\ Len(df) > 0
    /\ Len(RecordLines) = Len(df)

\* C7: once a request that created its session folders has ended, both folders
\* are gone, each unless its own removal failed.
C7_FoldersRemoved ==
    (pc = "ended" /\ SessionCreated) =>
      /\ ~uploadDir \/ "upload" \in rmtreeFailed
      /\ ~completedDir \/ "completed" \in rmtreeFailed

\* C8: a record logged SUCCESS whose last-name or first-name field is absent
\* (column missing, or cell empty) has the placeholder in its document name,
\* and no document name carries the text of a missing value.
C8_PlaceholderForAbsentName ==
    \A k \in 1..Len(RecordLines) :
      RecordLines[k].kind = "SUCCESS" =>
        /\ Absent(df[k], "lastname") => RecordLines[k].file[1] = "unknown_lastname"
        /\ Absent(df[k], "firstname") => RecordLines[k].file[2] = "unknown_firstname"
        /\ RecordLines[k].file[1] # "nan"
        /\ RecordLines[k].file[2] # "nan"

\* C9 (as claimed): the paths of a record's intermediate files are exclusive to
\* that record: a file in the upload folder was written during the run of the
\* only record that ever wrote its path.
C9_ExclusivePaths ==
    \A p \in Paths : upload[p] # NoFile => upload[p].run = owner[p]

\* C9 (amended): the paths are shared by the records of a batch, but every
\* intermediate file a record's stamp step or merge step reads, and every file
\* its removal step deletes, exists and was produced during that record's own
\* run: what an earlier record left behind is overwritten before it is read.
C9_OwnFilesOnly ==
    /\ pc = "stamp" => \A i \in 1..Len(pages) : upload[pages[i]].run = index
    /\ pc = "merge" => \A i \in 1..Len(filled_pages) : upload[filled_pages[i]].run = index
    /\ pc = "remove" =>
         \A i \in 1..Len(pages \o filled_pages) : upload[(pages \o filled_pages)[i]].run = index

C9_Witness ==
    /\ pc = "merge"
    /\ index = 1
    /\ RecordLines[1].kind = "ERROR"
    /\ owner[FilledPath(PagePath(1))] = 0
    /\ Len(filled_pages) >= 3

\* C10: right after a record is logged SUCCESS its output document has exactly
\* as many pages as the template, page k of the document being page k of the
\* template, page 1 carrying the page-1 insertions of that record, page 3 the
\* page-3 insertions, every other page no insertion.
C10_OutputPages ==
    (pc = "loop" /\ index > 0 /\ processing_log[Len(processing_log)].kind = "SUCCESS") =>
      LET row == df[index]
          doc == completed[processing_log[Len(processing_log)].file]
      IN  /\ Len(doc) = template.pages
          /\ \A k \in 1..Len(doc) :
               /\ doc[k].page = k
               /\ doc[k].stamps = IF k = 1 THEN Stamps(row, coords_p1)
                                  ELSE IF k = 3 THEN Stamps(row, coords_p3)
                                  ELSE {}

C10_Witness ==
    /\ pc = "loop"
    /\ index > 0
    /\ processing_log[Len(processing_log)].kind = "SUCCESS"
    /\ template.pages >= 4
    /\ Absent(df[index], "lastname")

====
